---------------------------- MODULE Spec2Model ----------------------------
(***************************************************************************)
(* Chance-wheel bot (src/wheel_bot.py): the per-guild wheel store (cache   *)
(* in front of sqlite), the wheel engine commands (createwheel,            *)
(* addsection, removesection, editsection, listsections, spin) and the     *)
(* colour parser.                                                          *)
(*                                                                         *)
(* Strings are tuples of one-character strings so that lower(), strip()    *)
(* and upper() are computed, not assumed.  Percentages are Python floats   *)
(* in the source; here they are exact integers (whole percents), so        *)
(* binary rounding of float sums is outside this model.                    *)
(***************************************************************************)
EXTENDS Integers, Sequences, FiniteSets, TLC

(* ------------------------------ bounds -------------------------------- *)

\* Spin handlers that may be suspended at `await defer()` at the same time.
MaxSpins == 1

\* Storage writes that may fail in one behaviour.
MaxFaults == 1

(* ------------------------------ strings ------------------------------- *)

UpperCase == <<"A", "B", "C", "D", "E", "F", "G", "H", "I", "J", "K", "L", "M",
               "N", "O", "P", "Q", "R", "S", "T", "U", "V", "W", "X", "Y", "Z">>

LowerCase == <<"a", "b", "c", "d", "e", "f", "g", "h", "i", "j", "k", "l", "m",
               "n", "o", "p", "q", "r", "s", "t", "u", "v", "w", "x", "y", "z">>

Whitespace == {" ", "\t", "\n"}

HexDigits == {"0", "1", "2", "3", "4", "5", "6", "7", "8", "9",
              "a", "b", "c", "d", "e", "f", "A", "B", "C", "D", "E", "F"}

LowerChar(c) ==
    IF \E i \in DOMAIN UpperCase : UpperCase[i] = c
    THEN LowerCase[CHOOSE i \in DOMAIN UpperCase : UpperCase[i] = c]
    ELSE c

UpperChar(c) ==
    IF \E i \in DOMAIN LowerCase : LowerCase[i] = c
    THEN UpperCase[CHOOSE i \in DOMAIN LowerCase : LowerCase[i] = c]
    ELSE c

\* str.lower()
Lower(s) == [i \in DOMAIN s |-> LowerChar(s[i])]

\* str.upper()
Upper(s) == [i \in DOMAIN s |-> UpperChar(s[i])]

\* str.strip(): drops leading and trailing whitespace.
Strip(s) ==
    LET keep == {i \in DOMAIN s : s[i] \notin Whitespace}
    IN  IF keep = {} THEN <<>>
        ELSE LET lo == CHOOSE i \in keep : \A j \in keep : i <= j
                 hi == CHOOSE i \in keep : \A j \in keep : j <= i
             IN  SubSeq(s, lo, hi)

\* The digit part of a base-16 literal: digits separated by single
\* underscores; after a 0x prefix one underscore may come first.
DigitsOK(d, lead) ==
    /\ Len(d) > 0
    /\ \A i \in DOMAIN d : d[i] \in HexDigits \cup {"_"}
    /\ d[Len(d)] # "_"
    /\ (lead \/ d[1] # "_")
    /\ \A i \in 1..(Len(d) - 1) : ~(d[i] = "_" /\ d[i + 1] = "_")

\* Whether int(s, 16) returns instead of raising ValueError: surrounding
\* whitespace, one sign and a 0x prefix are accepted.
IsHexInt(s) ==
    LET t == Strip(s)
        u == IF Len(t) > 0 /\ t[1] \in {"+", "-"} THEN Tail(t) ELSE t
        pre == Len(u) >= 2 /\ u[1] = "0" /\ u[2] \in {"x", "X"}
    IN  IF pre THEN DigitsOK(SubSeq(u, 3, Len(u)), TRUE)
        ELSE DigitsOK(u, FALSE)

HexChars == <<"0", "1", "2", "3", "4", "5", "6", "7", "8", "9",
              "A", "B", "C", "D", "E", "F">>

\* f"#{n:06X}" for 0 <= n <= 0xFFFFFF
Format06X(n) ==
    <<"#">> \o [k \in 1..6 |-> HexChars[((n \div (16 ^ (6 - k))) % 16) + 1]]

color_map ==
    <<"r", "e", "d">> :> <<"#", "F", "F", "0", "0", "0", "0">> @@
    <<"b", "l", "u", "e">> :> <<"#", "0", "0", "0", "0", "F", "F">> @@
    <<"g", "r", "e", "e", "n">> :> <<"#", "0", "0", "F", "F", "0", "0">> @@
    <<"y", "e", "l", "l", "o", "w">> :> <<"#", "F", "F", "F", "F", "0", "0">> @@
    <<"o", "r", "a", "n", "g", "e">> :> <<"#", "F", "F", "A", "5", "0", "0">> @@
    <<"p", "u", "r", "p", "l", "e">> :> <<"#", "8", "0", "0", "0", "8", "0">> @@
    <<"p", "i", "n", "k">> :> <<"#", "F", "F", "C", "0", "C", "B">> @@
    <<"c", "y", "a", "n">> :> <<"#", "0", "0", "F", "F", "F", "F">> @@
    <<"m", "a", "g", "e", "n", "t", "a">> :> <<"#", "F", "F", "0", "0", "F", "F">> @@
    <<"l", "i", "m", "e">> :> <<"#", "0", "0", "F", "F", "0", "0">> @@
    <<"n", "a", "v", "y">> :> <<"#", "0", "0", "0", "0", "8", "0">> @@
    <<"t", "e", "a", "l">> :> <<"#", "0", "0", "8", "0", "8", "0">> @@
    <<"o", "l", "i", "v", "e">> :> <<"#", "8", "0", "8", "0", "0", "0">> @@
    <<"m", "a", "r", "o", "o", "n">> :> <<"#", "8", "0", "0", "0", "0", "0">> @@
    <<"g", "r", "a", "y">> :> <<"#", "8", "0", "8", "0", "8", "0">> @@
    <<"s", "i", "l", "v", "e", "r">> :> <<"#", "C", "0", "C", "0", "C", "0">> @@
    <<"b", "l", "a", "c", "k">> :> <<"#", "0", "0", "0", "0", "0", "0">> @@
    <<"w", "h", "i", "t", "e">> :> <<"#", "F", "F", "F", "F", "F", "F">>

\* Values random.randint(0, 0xFFFFFF) is let to return: 0x00000A, 0xFF0000.
RandomInts == {10, 255 * 65536}

\* The same resolver with the length test off by one.
ParseColorLen6(color) ==
    LET c == Strip(Lower(color))
    IN  IF c \in DOMAIN color_map THEN {color_map[c]}
        ELSE IF Len(c) = 6 /\ c[1] = "#" /\ IsHexInt(Tail(c)) THEN {Upper(c)}
        ELSE {Format06X(n) : n \in RandomInts}

\* WheelSection._parse_color: the set of values one call may return (the
\* fallback is a random draw).
ParseColor(color) ==
    LET c == Strip(Lower(color))
    IN  IF c \in DOMAIN color_map THEN {color_map[c]}
        ELSE IF Len(c) = 7 /\ c[1] = "#" /\ IsHexInt(Tail(c)) THEN {Upper(c)}
        ELSE {Format06X(n) : n \in RandomInts}

(* --------------------------- wheel sections --------------------------- *)

\* A WheelSection object: name, percentage, color (already parsed).
Section(name, percentage, color) ==
    [name |-> name, percentage |-> percentage, color |-> color]

\* WheelSection.__init__: the sections one construction may yield.
WheelSection(name, percentage, color) ==
    {Section(name, percentage, c) : c \in ParseColor(color)}

\* WheelSection.to_dict
to_dict(section) ==
    [name |-> section.name, percentage |-> section.percentage,
     color |-> section.color]

\* WheelSection.from_dict: builds the section through the constructor, so
\* the stored color is parsed again.
from_dict(data) == WheelSection(data.name, data.percentage, data.color)

RECURSIVE SumPercentages(_)
SumPercentages(sections) ==
    IF sections = <<>> THEN 0
    ELSE Head(sections).percentage + SumPercentages(Tail(sections))

\* ChanceWheelBot.calculate_total_percentage
calculate_total_percentage(sections) == SumPercentages(sections)

(* ------------------------------- state -------------------------------- *)

VARIABLES
    db,      \* table wheels: guild_id -> stored section dicts (rows that exist)
    wheels,  \* ChanceWheelBot.wheels: guild_id -> section list (loaded guilds)
    spins,   \* spin handlers suspended at `await interaction.response.defer()`
    last,    \* what the most recently finished handler sent to its caller
    faults,  \* storage writes that have failed so far
    env      \* the environment of the run: guilds and the inputs users send

vars == <<db, wheels, spins, last, faults, env>>

\* guild_id values, and the text users type.
GuildA == 1
GuildB == 2

NameEmpty == <<>>
NameA == <<"A">>
NameLowerA == <<"a">>
NameB == <<"B">>

TokenRed == <<" ", "R", "e", "d">>
TokenHexRed == <<"#", "f", "f", "0", "0", "0", "0">>
TokenHex == <<"#", "0", "0", "0", "0", "0", "a">>
TokenBad == <<"n", "o", "p", "e">>
TokenShort == <<"#", "1", "2", "3", "4", "5">>
TokenNotHex == <<"#", "1", "2", "3", "4", "5", "g">>
TokenPrefixed == <<"#", "0", "x", "1", "2", "a", "b">>
TokenSigned == <<"#", "+", "1", "2", "a", "b", "c">>

\* One guild whose commands arrive one after the other, and storage that
\* never fails.  Three distinct names (one in two spellings, one empty) and
\* percentages on both sides of every validation bound.
WheelEnv ==
    [guilds  |-> {GuildA},
     names   |-> {NameEmpty, NameA, NameLowerA, NameB},
     pcts    |-> {0, 20, 30, 80, 100, 150},
     colors  |-> {TokenRed, TokenHexRed},
     draws   |-> {0, 20, 25, 80, 85, 100},
     faulty  |-> FALSE,
     overlap |-> FALSE]

\* Two guilds with a small vocabulary; storage writes may fail.
StoreEnv ==
    [guilds  |-> {GuildA, GuildB},
     names   |-> {NameA, NameLowerA},
     pcts    |-> {100},
     colors  |-> {TokenBad},
     draws   |-> {0, 100},
     faulty  |-> TRUE,
     overlap |-> FALSE]

\* One guild whose commands overlap: others run while a spin is suspended.
RaceEnv ==
    [guilds  |-> {GuildA},
     names   |-> {NameEmpty, NameA},
     pcts    |-> {50, 100},
     colors  |-> {TokenRed},
     draws   |-> {0, 50, 100},
     faulty  |-> FALSE,
     overlap |-> TRUE]

\* Two guilds with one possible section each; commands overlap a suspended
\* spin and storage writes may fail.
PairEnv ==
    [guilds  |-> {GuildA, GuildB},
     names   |-> {NameA},
     pcts    |-> {100},
     colors  |-> {TokenRed},
     draws   |-> {100},
     faulty  |-> TRUE,
     overlap |-> TRUE]

\* One guild with two section names, one in two spellings, and colour tokens of every kind: a
\* name, hex digits, no colour at all, and literals int(x, 16) accepts that
\* are not six hex digits.
ColorEnv ==
    [guilds  |-> {GuildA},
     names   |-> {NameA, NameLowerA, NameB},
     pcts    |-> {50, 100},
     colors  |-> {TokenRed, TokenHex, TokenBad, TokenShort, TokenNotHex,
                  TokenPrefixed, TokenSigned},
     draws   |-> {50, 100},
     faulty  |-> FALSE,
     overlap |-> FALSE]

\* Whether a new command may start now: handlers of different interactions
\* interleave at their awaits only where the environment lets commands overlap.
Admitted == env.overlap \/ spins = {}

\* WheelDatabase.save_wheel: the row written for a list.
save_wheel(sections) == [i \in DOMAIN sections |-> to_dict(sections[i])]

\* WheelDatabase.load_wheel: the lists a load of guild_id may return.
RECURSIVE FromRows(_)
FromRows(rows) ==
    IF rows = <<>> THEN {<<>>}
    ELSE {<<x>> \o rest : x \in from_dict(Head(rows)), rest \in FromRows(Tail(rows))}

load_wheel(guild_id) ==
    IF guild_id \in DOMAIN db THEN FromRows(db[guild_id]) ELSE {<<>>}

\* The stored list read again on every call, cached or not.
get_wheel_sections_reloading(guild_id) == load_wheel(guild_id)

\* A cache miss answered with an empty list instead of the stored one.
get_wheel_sections_unloaded(guild_id) ==
    IF guild_id \in DOMAIN wheels THEN {wheels[guild_id]} ELSE {<<>>}

\* ChanceWheelBot.get_wheel_sections: the lists the call may return; on a
\* cache miss the returned list is also what the cache then holds.
get_wheel_sections(guild_id) ==
    IF guild_id \in DOMAIN wheels THEN {wheels[guild_id]} ELSE load_wheel(guild_id)

\* One list object shared by every guild in the cache.
CachePutShared(guild_id, sections) ==
    [g \in DOMAIN wheels \cup {guild_id} |-> sections]

\* The cache after self.wheels[guild_id] = sections.
CachePut(guild_id, sections) ==
    [g \in DOMAIN wheels \cup {guild_id} |->
        IF g = guild_id THEN sections ELSE wheels[g]]

\* A write that is never committed.
RowPutNoCommit(guild_id, sections) == db

\* A write that lands in the row of the first guild.
RowPutWrongKey(guild_id, sections) ==
    [g \in DOMAIN db \cup {GuildA} |->
        IF g = GuildA THEN save_wheel(sections) ELSE db[g]]

\* The table after INSERT OR REPLACE of guild_id's row.
RowPut(guild_id, sections) ==
    [g \in DOMAIN db \cup {guild_id} |->
        IF g = guild_id THEN save_wheel(sections) ELSE db[g]]

(* ------------------------------ responses ----------------------------- *)

\* What a handler sends back, with the arguments it was called with.  An
\* optional name is a tuple of length 0 (None) or 1.
NoResp ==
    [op |-> "none", g |-> 0, name |-> <<>>, pct |-> 0, color |-> <<>>,
     result |-> "none", total |-> 0, count |-> 0,
     winner |-> <<>>, r |-> 0, sections |-> <<>>, image |-> <<>>]

Resp(op, g, name, pct, color, result, total, count) ==
    [NoResp EXCEPT !.op = op, !.g = g, !.name = name, !.pct = pct,
                   !.color = color, !.result = result, !.total = total,
                   !.count = count]

\* Outcomes of the sqlite write of one command: TRUE is a committed write,
\* FALSE an sqlite3.Error raised out of save_wheel.
WriteOutcomes ==
    IF env.faulty /\ faults < MaxFaults THEN {TRUE, FALSE} ELSE {TRUE}

\* The same call with an sqlite3.Error caught and dropped.
save_wheel_sections_swallowing(guild_id, sections, okResp) ==
    /\ wheels' = CachePut(guild_id, sections)
    /\ \E written \in WriteOutcomes :
          /\ db' = IF written THEN RowPut(guild_id, sections) ELSE db
          /\ faults' = IF written THEN faults ELSE faults + 1
          /\ last' = okResp

\* ChanceWheelBot.save_wheel_sections: the cache is assigned first, then the
\* row is written; if the write raises, on_app_command_error answers.
save_wheel_sections(guild_id, sections, okResp) ==
    /\ wheels' = CachePut(guild_id, sections)
    /\ \E written \in WriteOutcomes :
          IF written
          THEN /\ db' = RowPut(guild_id, sections)
               /\ faults' = faults
               /\ last' = okResp
          ELSE /\ db' = db
               /\ faults' = faults + 1
               /\ last' = Resp(okResp.op, guild_id, okResp.name, okResp.pct,
                               okResp.color, "StorageFailure", 0, 0)

\* The same answer with the list read also written back to its row.
ReplySaving(guild_id, sections, resp) ==
    /\ wheels' = CachePut(guild_id, sections)
    /\ db' = RowPut(guild_id, sections)
    /\ last' = resp
    /\ UNCHANGED <<spins, faults, env>>

\* A handler that answers without writing: only a cache miss changes state.
Reply(guild_id, sections, resp) ==
    /\ wheels' = CachePut(guild_id, sections)
    /\ last' = resp
    /\ UNCHANGED <<db, spins, faults, env>>

\* Suspended spins hold a reference to the list object they read.  A list
\* mutated in place is seen by them; a list replaced in the cache is not.
MutatedInPlace(guild_id, sections) ==
    {IF s.g = guild_id /\ s.linked THEN [s EXCEPT !.sections = sections] ELSE s
        : s \in spins}

Replaced(guild_id) ==
    {IF s.g = guild_id THEN [s EXCEPT !.linked = FALSE] ELSE s : s \in spins}

\* The same search with the names compared as typed.
FindSectionExact(sections, name) ==
    LET hits == {i \in DOMAIN sections : sections[i].name = name}
    IN  IF hits = {} THEN 0
        ELSE CHOOSE i \in hits : \A j \in hits : i <= j

\* for section in sections: if section.name.lower() == name.lower(): break
\* The index found, 0 when the loop ends without a match.
FindSection(sections, name) ==
    LET hits == {i \in DOMAIN sections : Lower(sections[i].name) = Lower(name)}
    IN  IF hits = {} THEN 0
        ELSE CHOOSE i \in hits : \A j \in hits : i <= j

\* list.remove of the object at index i
RemoveAt(sections, i) ==
    SubSeq(sections, 1, i - 1) \o SubSeq(sections, i + 1, Len(sections))

\* The edited section taken out and put back at the end of the list.
EditedMovedLast(sections, i, new_percentage, c) ==
    Append(RemoveAt(sections, i),
           [sections[i] EXCEPT !.percentage = new_percentage, !.color = c])

\* edit_section: the two assignments to the section found, in place.
Edited(sections, i, new_percentage, c) ==
    [sections EXCEPT ![i].percentage = new_percentage, ![i].color = c]

(* ------------------------------ commands ------------------------------ *)

\* The same test with the upper bound excluded.
InvalidPercentageStrict(percentage) == percentage <= 0 \/ percentage >= 100

\* if percentage <= 0 or percentage > 100
InvalidPercentage(percentage) == percentage <= 0 \/ percentage > 100

\* The same test with the names compared as typed.
NameTakenExact(sections, name) ==
    \E i \in DOMAIN sections : sections[i].name = name

\* any(section.name.lower() == name.lower() for section in sections)
NameTaken(sections, name) ==
    \E i \in DOMAIN sections : Lower(sections[i].name) = Lower(name)

\* The same test without the percentage being added.
BudgetExceededOldTotal(current_total, percentage) == current_total > 100

\* if current_total + percentage > 100
BudgetExceeded(current_total, percentage) == current_total + percentage > 100

\* The other sections left out of the total.
TotalIgnored(sections, i) == 0

\* The total with the edited section still counted.
TotalWithEdited(sections, i) == calculate_total_percentage(sections)

\* edit_section: the total of the list without the section being edited.
TotalWithout(sections, i) ==
    calculate_total_percentage(sections) - sections[i].percentage

\* The two checks in the other order.
SpinCheckTotalFirst(sections) ==
    IF calculate_total_percentage(sections) < 100 THEN "IncompleteWheel"
    ELSE IF sections = <<>> THEN "EmptyWheel"
    ELSE "ok"

\* The two checks at the head of spin_wheel, in their order.
SpinCheck(sections) ==
    IF sections = <<>> THEN "EmptyWheel"
    ELSE IF calculate_total_percentage(sections) < 100 THEN "IncompleteWheel"
    ELSE "ok"

\* The checks of add_section with the name looked at first.
AddRefusalNameFirst(sections, name, percentage) ==
    IF NameTaken(sections, name) THEN "DuplicateName"
    ELSE IF InvalidPercentage(percentage) THEN "InvalidPercentage"
    ELSE IF BudgetExceeded(calculate_total_percentage(sections), percentage)
    THEN "PercentageBudgetExceeded"
    ELSE "ok"

\* The three checks of add_section, in their order: the first that refuses.
AddRefusal(sections, name, percentage) ==
    IF InvalidPercentage(percentage) THEN "InvalidPercentage"
    ELSE IF NameTaken(sections, name) THEN "DuplicateName"
    ELSE IF BudgetExceeded(calculate_total_percentage(sections), percentage)
    THEN "PercentageBudgetExceeded"
    ELSE "ok"

\* The three checks of edit_section, in their order: the first that refuses.
EditRefusal(sections, name, new_percentage) ==
    LET i == FindSection(sections, name)
    IN  IF i = 0 THEN "SectionNotFound"
        ELSE IF InvalidPercentage(new_percentage) THEN "InvalidPercentage"
        ELSE IF BudgetExceeded(TotalWithout(sections, i), new_percentage)
        THEN "PercentageBudgetExceeded"
        ELSE "ok"

\* /createwheel
create_wheel(guild_id) ==
    /\ Admitted
    /\ spins' = Replaced(guild_id)
    /\ save_wheel_sections(guild_id, <<>>,
          Resp("createwheel", guild_id, <<>>, 0, <<>>, "ok", 0, 0))
    /\ UNCHANGED env

\* /addsection
add_section(guild_id, name, percentage, color) ==
    /\ Admitted
    /\ \E sections \in get_wheel_sections(guild_id) :
       LET current_total == calculate_total_percentage(sections)
           R(result, total) ==
               Resp("addsection", guild_id, name, percentage, <<>>, result,
                    total, Len(sections))
           refusal == AddRefusal(sections, name, percentage)
       IN  IF refusal = "InvalidPercentage"
           THEN Reply(guild_id, sections, R("InvalidPercentage", 0))
           ELSE IF refusal = "DuplicateName"
           THEN Reply(guild_id, sections, R("DuplicateName", 0))
           ELSE IF refusal = "PercentageBudgetExceeded"
           THEN Reply(guild_id, sections,
                      R("PercentageBudgetExceeded", current_total))
           ELSE \E new_section \in WheelSection(name, percentage, color) :
                   LET appended == Append(sections, new_section)
                   IN  /\ spins' = MutatedInPlace(guild_id, appended)
                       /\ save_wheel_sections(guild_id, appended,
                             Resp("addsection", guild_id, name, percentage,
                                  color, "ok",
                                  calculate_total_percentage(appended),
                                  Len(appended)))
                       /\ UNCHANGED env

\* /removesection
remove_section(guild_id, name) ==
    /\ Admitted
    /\ \E sections \in get_wheel_sections(guild_id) :
       LET i == FindSection(sections, name)
       IN  IF i = 0
           THEN Reply(guild_id, sections,
                      Resp("removesection", guild_id, name, 0, <<>>,
                           "SectionNotFound", 0, Len(sections)))
           ELSE LET remaining == RemoveAt(sections, i)
                IN  /\ spins' = MutatedInPlace(guild_id, remaining)
                    /\ save_wheel_sections(guild_id, remaining,
                          Resp("removesection", guild_id, name, 0, <<>>, "ok",
                               calculate_total_percentage(remaining),
                               Len(remaining)))
                    /\ UNCHANGED env

\* /editsection
edit_section(guild_id, name, new_percentage, new_color) ==
    /\ Admitted
    /\ \E sections \in get_wheel_sections(guild_id) :
       LET i == FindSection(sections, name)
           R(result, total) ==
               Resp("editsection", guild_id, name, new_percentage, <<>>,
                    result, total, Len(sections))
           refusal == EditRefusal(sections, name, new_percentage)
       IN  IF refusal = "SectionNotFound"
           THEN Reply(guild_id, sections, R("SectionNotFound", 0))
           ELSE IF refusal = "InvalidPercentage"
           THEN Reply(guild_id, sections, R("InvalidPercentage", 0))
           ELSE LET current_total == TotalWithout(sections, i)
                IN  IF refusal = "PercentageBudgetExceeded"
                    THEN Reply(guild_id, sections,
                               R("PercentageBudgetExceeded", current_total))
                    ELSE \E c \in ParseColor(new_color) :
                            LET edited ==
                                    Edited(sections, i, new_percentage, c)
                            IN  /\ spins' = MutatedInPlace(guild_id, edited)
                                /\ save_wheel_sections(guild_id, edited,
                                      Resp("editsection", guild_id, name,
                                           new_percentage, new_color, "ok",
                                           calculate_total_percentage(edited),
                                           Len(edited)))
                                /\ UNCHANGED env

\* Python truth value of `winner`: None and the empty string are false.
Truthy(winner) == winner # <<>> /\ winner[1] # <<>>

\* WheelRenderer.create_wheel_image: the pie slices drawn, in list order,
\* each with its fill and outline; an empty list draws no slice.
create_wheel_image(sections, winner) ==
    [i \in DOMAIN sections |->
        LET highlight == Truthy(winner) /\ sections[i].name = winner[1]
        IN  [fill_color    |-> sections[i].color,
             outline_color |-> IF highlight THEN "red" ELSE "black",
             outline_width |-> IF highlight THEN 4 ELSE 2]]

\* /listsections
list_sections(guild_id) ==
    /\ Admitted
    /\ \E sections \in get_wheel_sections(guild_id) :
       IF sections = <<>>
       THEN Reply(guild_id, sections,
                  Resp("listsections", guild_id, <<>>, 0, <<>>, "EmptyWheel", 0, 0))
       ELSE Reply(guild_id, sections,
                  [Resp("listsections", guild_id, <<>>, 0, <<>>, "ok",
                        calculate_total_percentage(sections), Len(sections))
                      EXCEPT !.sections = sections,
                             !.image = create_wheel_image(sections, <<>>)])

\* The selection loop of spin_wheel: None (<<>>) or the name reached.
RECURSIVE SelectWinner(_, _, _)
SelectWinner(sections, rand_num, current_sum) ==
    IF sections = <<>> THEN <<>>
    ELSE LET sum == current_sum + Head(sections).percentage
         IN  IF rand_num <= sum THEN <<Head(sections).name>>
             ELSE SelectWinner(Tail(sections), rand_num, sum)

\* /spin up to `await interaction.response.defer()`
spin_wheel(guild_id) ==
    /\ Admitted
    /\ \E sections \in get_wheel_sections(guild_id) :
       LET total_percentage == calculate_total_percentage(sections)
       IN  IF SpinCheck(sections) = "EmptyWheel"
           THEN Reply(guild_id, sections,
                      Resp("spin", guild_id, <<>>, 0, <<>>, "EmptyWheel", 0, 0))
           ELSE IF SpinCheck(sections) = "IncompleteWheel"
           THEN Reply(guild_id, sections,
                      Resp("spin", guild_id, <<>>, 0, <<>>, "IncompleteWheel",
                           total_percentage, Len(sections)))
           ELSE /\ Cardinality(spins) < MaxSpins
                /\ wheels' = CachePut(guild_id, sections)
                /\ spins' = spins \cup
                      {[g |-> guild_id, linked |-> TRUE, sections |-> sections,
                        total_percentage |-> total_percentage,
                        count |-> Len(sections)]}
                /\ UNCHANGED <<db, last, faults, env>>

\* /spin after the defer: the draw, the fallback, the result message.
\* sections[0] of an empty list raises IndexError, which ends the handler in
\* on_app_command_error.
spin_resume(s) ==
    \E rand_num \in {r \in env.draws : r <= s.total_percentage} :
       LET sections == s.sections
           found == SelectWinner(sections, rand_num, 0)
           R(result) ==
               Resp("spin", s.g, <<>>, 0, <<>>, result, s.total_percentage,
                    s.count)
       IN  /\ spins' = spins \ {s}
           /\ IF ~Truthy(found) /\ sections = <<>>
              THEN last' = R("Error")
              ELSE LET winner == IF Truthy(found) THEN found[1]
                                 ELSE sections[1].name
                       winner_section ==
                           sections[CHOOSE i \in DOMAIN sections :
                                       /\ sections[i].name = winner
                                       /\ \A j \in 1..(i - 1) :
                                             sections[j].name # winner]
                   IN  last' = [R("Winner") EXCEPT
                                   !.winner = <<winner>>,
                                   !.r = rand_num,
                                   !.pct = winner_section.percentage,
                                   !.color = winner_section.color,
                                   !.sections = sections,
                                   !.image =
                                      create_wheel_image(sections, <<winner>>)]
           /\ UNCHANGED <<db, wheels, faults, env>>

\* The process ends and a new ChanceWheelBot is constructed: the cache is
\* empty, running handlers are gone, the sqlite file stays.
Restart ==
    /\ wheels # <<>>
    /\ wheels' = <<>>
    /\ spins' = {}
    /\ last' = NoResp
    /\ UNCHANGED <<db, faults, env>>

(* --------------------------- specifications --------------------------- *)

\* Rows an earlier process lifetime may have left for a guild.
StoredRows ==
    {<<>>,
     <<to_dict(Section(NameA, 100, Format06X(255 * 65536)))>>}

InitWith(e) ==
    /\ env = e
    /\ db \in UNION {[G -> StoredRows] : G \in SUBSET e.guilds}
    /\ wheels = <<>>
    /\ spins = {}
    /\ last = NoResp
    /\ faults = 0

Init == InitWith(WheelEnv)

InitStore == InitWith(StoreEnv)

Next ==
    \/ \E g \in env.guilds : create_wheel(g)
    \/ \E g \in env.guilds, name \in env.names, p \in env.pcts, c \in env.colors :
          add_section(g, name, p, c)
    \/ \E g \in env.guilds, name \in env.names : remove_section(g, name)
    \/ \E g \in env.guilds, name \in env.names, p \in env.pcts, c \in env.colors :
          edit_section(g, name, p, c)
    \/ \E g \in env.guilds : list_sections(g)
    \/ \E g \in env.guilds : spin_wheel(g)
    \/ \E s \in spins : spin_resume(s)
    \/ Restart

\* One guild, rich wheels, reliable storage.
Spec == Init /\ [][Next]_vars

\* Two guilds, small wheels, storage writes may fail.
SpecStore == InitStore /\ [][Next]_vars

InitRace == InitWith(RaceEnv)

\* One guild, small wheels, commands overlap a suspended spin.
SpecRace == InitRace /\ [][Next]_vars

InitPair == InitWith(PairEnv)

\* Two guilds, overlapping commands, storage writes may fail.
SpecPair == InitPair /\ [][Next]_vars

InitColor == InitWith(ColorEnv)

\* One guild, two section names, many colour tokens.
SpecColor == InitColor /\ [][Next]_vars

(* ------------------------------- claims ------------------------------- *)

\* A guild's list in durable storage (no row reads as the empty list) and
\* its list as the next command will read it.
StoredSections(g) == IF g \in DOMAIN db THEN db[g] ELSE <<>>

CurrentSections(g) == IF g \in DOMAIN wheels THEN wheels[g] ELSE StoredSections(g)

CaseInsensitivelyUnique(sections) ==
    \A i, j \in DOMAIN sections :
       i # j => Lower(sections[i].name) # Lower(sections[j].name)

\* C2: no two sections of a guild have names that are equal when compared
\* case-insensitively, in the cache and in the stored row.
C2_UniqueNames ==
    \A g \in env.guilds :
       /\ CaseInsensitivelyUnique(StoredSections(g))
       /\ g \in DOMAIN wheels => CaseInsensitivelyUnique(wheels[g])

\* An add was refused as a duplicate although the name typed differs in
\* spelling from the stored one.
C2_Witness ==
    /\ last.op = "addsection"
    /\ last.result = "DuplicateName"
    /\ \E i \in DOMAIN CurrentSections(last.g) :
          /\ CurrentSections(last.g)[i].name # last.name
          /\ Lower(CurrentSections(last.g)[i].name) = Lower(last.name)

\* A step in which the handler of command op answers (a suspended spin
\* neither starts nor ends in it).
Answers(op) == spins' = spins /\ last'.op = op

\* C3: addsection succeeds exactly when 0 < p <= 100, no section has the
\* name case-insensitively and the old total plus p is at most 100; then the
\* list is the old list with the section (name, p, parsed color) appended and
\* the reported total is the old total plus p; otherwise the error reported
\* is one whose condition holds.
C3_AddContract ==
    [][Answers("addsection") =>
         LET g == last'.g
             p == last'.pct
             old == CurrentSections(g)
             valid == 0 < p /\ p <= 100
             dup == \E i \in DOMAIN old : Lower(old[i].name) = Lower(last'.name)
             fits == SumPercentages(old) + p <= 100
         IN  /\ last'.result \in {"ok", "InvalidPercentage", "DuplicateName",
                                  "PercentageBudgetExceeded"}
             /\ (last'.result = "ok") <=> (valid /\ ~dup /\ fits)
             /\ last'.result = "InvalidPercentage" => ~valid
             /\ last'.result = "DuplicateName" => dup
             /\ last'.result = "PercentageBudgetExceeded" => ~fits
             /\ last'.result = "ok" =>
                   /\ \E c \in ParseColor(last'.color) :
                         wheels'[g] = Append(old, Section(last'.name, p, c))
                   /\ last'.total = SumPercentages(old) + p
                   /\ g \in DOMAIN db' /\ db'[g] = wheels'[g]
    ]_vars

\* A section of 100 percent has just been added to an empty wheel.
C3_Witness ==
    /\ last.op = "addsection"
    /\ last.result = "ok"
    /\ last.pct = 100
    /\ Len(CurrentSections(last.g)) = 1
    /\ CurrentSections(last.g)[1].name = last.name

C4_WitnessNoOp ==
    /\ last.op = "editsection"
    /\ last.result = "ok"
    /\ last.pct = 20
    /\ last.total = 100
    /\ Len(CurrentSections(last.g)) = 2

ValidationErrors ==
    {"InvalidPercentage", "DuplicateName", "PercentageBudgetExceeded",
     "SectionNotFound"}

\* C5: an addsection, removesection or editsection that fails validation
\* leaves every guild's list as it was, in the cache (where a list not yet
\* loaded counts as its stored row) and in durable storage.
C5_FailureLeavesListUnchanged ==
    [][(/\ spins' = spins
        /\ last'.op \in {"addsection", "removesection", "editsection"}
        /\ last'.result \in ValidationErrors) =>
         /\ db' = db
         /\ \A g \in env.guilds : CurrentSections(g)' = CurrentSections(g)
         /\ last'.g \in DOMAIN wheels'
    ]_vars

\* A removal was refused on a guild that has sections, right after the
\* list was loaded from its row.
C5_Witness ==
    /\ last.op = "removesection"
    /\ last.result = "SectionNotFound"
    /\ last.g \in DOMAIN wheels
    /\ Len(wheels[last.g]) >= 1
    /\ wheels[last.g] = StoredSections(last.g)

\* C6: the answer of spin is EmptyWheel when the list is empty (before any
\* look at the total), IncompleteWheel with the current total when the list
\* is non-empty and its total is below 100, and a winner from the list
\* otherwise, which is exactly when the list is non-empty and totals 100.
C6_SpinOutcome ==
    last.op = "spin" =>
       LET sections == CurrentSections(last.g)
           total == SumPercentages(sections)
       IN  /\ last.result =
                 (IF sections = <<>> THEN "EmptyWheel"
                  ELSE IF total < 100 THEN "IncompleteWheel"
                  ELSE "Winner")
           /\ last.result = "IncompleteWheel" => last.total = total
           /\ last.result = "Winner" =>
                 /\ total = 100
                 /\ \E i \in DOMAIN sections : <<sections[i].name>> = last.winner

\* A spin of an incomplete two-section wheel has just been refused.
C6_Witness ==
    /\ last.op = "spin"
    /\ last.result = "IncompleteWheel"
    /\ Len(CurrentSections(last.g)) = 2
    /\ last.total < 100

\* A spin of a complete wheel has just announced a winner.
C6_WitnessWinner ==
    /\ last.op = "spin"
    /\ last.result = "Winner"
    /\ Len(CurrentSections(last.g)) = 2

\* The index of the first section whose cumulative percentage reaches r.
FirstReaching(sections, r) ==
    CHOOSE i \in DOMAIN sections :
       /\ SumPercentages(SubSeq(sections, 1, i)) >= r
       /\ \A j \in 1..(i - 1) : SumPercentages(SubSeq(sections, 1, j)) < r

\* C7: on a complete wheel, for every drawn r in [0, total], the winner
\* announced is the first section in list order whose cumulative percentage
\* is at least r.
C7_WinnerIsFirstReaching ==
    (/\ last.op = "spin"
     /\ last.result = "Winner"
     /\ SumPercentages(last.sections) = 100) =>
       last.winner = <<last.sections[FirstReaching(last.sections, last.r)].name>>

\* The same statement for wheels in which every section has a non-empty name.
C7_NamedSections ==
    (/\ last.op = "spin"
     /\ last.result = "Winner"
     /\ SumPercentages(last.sections) = 100
     /\ \A i \in DOMAIN last.sections : last.sections[i].name # <<>>) =>
       last.winner = <<last.sections[FirstReaching(last.sections, last.r)].name>>

\* C8: removesection fails with SectionNotFound exactly when no section has
\* the name case-insensitively; otherwise exactly that section leaves the
\* list, the others keep their order, and the reported count and total are
\* the old count minus 1 and the old total minus the removed percentage.
C8_RemoveContract ==
    [][Answers("removesection") =>
         LET g == last'.g
             old == CurrentSections(g)
             hits == {i \in DOMAIN old : Lower(old[i].name) = Lower(last'.name)}
         IN  /\ last'.result \in {"ok", "SectionNotFound"}
             /\ (last'.result = "SectionNotFound") <=> (hits = {})
             /\ last'.result = "ok" =>
                   \A i \in hits :
                      /\ wheels'[g] =
                            [j \in 1..(Len(old) - 1) |->
                                IF j < i THEN old[j] ELSE old[j + 1]]
                      /\ last'.count = Len(old) - 1
                      /\ last'.total = SumPercentages(old) - old[i].percentage
                      /\ g \in DOMAIN db' /\ db'[g] = wheels'[g]
    ]_vars

\* A section typed in another spelling has just been removed from the front
\* of a list that keeps sections.
C8_Witness ==
    /\ last.op = "removesection"
    /\ last.result = "ok"
    /\ last.count >= 1
    /\ last.name = NameLowerA
    /\ Len(CurrentSections(last.g)) = last.count

\* C9: createwheel answers with success and afterwards the guild's list is
\* empty in the cache and in its stored row.
C9_CreateEmpties ==
    last.op = "createwheel" =>
       /\ last.result = "ok"
       /\ last.g \in DOMAIN wheels /\ wheels[last.g] = <<>>
       /\ last.g \in DOMAIN db /\ db[last.g] = <<>>

\* A wheel has just been created.
C9_Witness ==
    /\ last.op = "createwheel"
    /\ last.result = "ok"
    /\ last.g \in DOMAIN db
    /\ spins = {}

\* C10: while no command is in the middle of executing and no storage write
\* has failed, the cached list of every loaded guild equals its stored list
\* (no row counting as the empty list).
C10_WriteThrough ==
    (spins = {} /\ faults = 0) =>
       \A g \in DOMAIN wheels : wheels[g] = StoredSections(g)

\* Both guilds are loaded with sections, no write has failed.
C10_Witness ==
    /\ spins = {}
    /\ faults = 0
    /\ DOMAIN wheels = {GuildA, GuildB}
    /\ wheels[GuildA] # <<>>
    /\ wheels[GuildB] # <<>>
    /\ wheels[GuildA] # wheels[GuildB]

\* The same statement without the condition on failed writes.
C10_EvenAfterFailedWrite ==
    spins = {} => \A g \in DOMAIN wheels : wheels[g] = StoredSections(g)

\* The four commands that change a list.
Mutations == {"createwheel", "addsection", "removesection", "editsection"}

\* C11: whenever createwheel, addsection, removesection or editsection
\* answers with success, the row of its guild in durable storage already holds
\* the list the command produced; a write that fails is never followed by a
\* success response.
C11_SuccessAfterDurableWrite ==
    [][ \A op \in Mutations :
          (Answers(op) /\ last'.result = "ok") =>
             /\ last'.g \in DOMAIN db'
             /\ db'[last'.g] = save_wheel(wheels'[last'.g])
             /\ Len(db'[last'.g]) = last'.count
             /\ faults' = faults ]_vars

\* A section was added with success after an earlier write had failed.
C11_Witness ==
    /\ last.op = "addsection" /\ last.result = "ok"
    /\ faults = 1
    /\ db[last.g] # <<>>

\* A step that ends the process, and the guild whose command takes any other
\* step: the guild of the spin that was suspended, else of the response sent.
RestartStep == wheels # <<>> /\ wheels' = <<>> /\ last' = NoResp

Actor ==
    IF Cardinality(spins') > Cardinality(spins)
    THEN (CHOOSE s \in spins' \ spins : TRUE).g
    ELSE last'.g

\* C12: a step of a command for one guild, also one taken while a spin of
\* another guild is suspended, leaves the cached list, the stored row and the
\* suspended spins of every other guild as they were.
C12_CommunityIsolation ==
    [][ ~RestartStep =>
          \A Y \in env.guilds \ {Actor} :
             /\ (Y \in DOMAIN db') = (Y \in DOMAIN db)
             /\ StoredSections(Y)' = StoredSections(Y)
             /\ (Y \in DOMAIN wheels') = (Y \in DOMAIN wheels)
             /\ CurrentSections(Y)' = CurrentSections(Y)
             /\ {s \in spins' : s.g = Y} = {s \in spins : s.g = Y} ]_vars

\* A section was removed from the first guild's wheel while a spin of the
\* second guild, whose wheel holds a section, was suspended.
C12_Witness ==
    /\ last.op = "removesection" /\ last.g = GuildA /\ last.result = "ok"
    /\ GuildB \in DOMAIN wheels /\ wheels[GuildB] # <<>>
    /\ StoredSections(GuildB) = save_wheel(wheels[GuildB])
    /\ \E s \in spins : s.g = GuildB

\* C13: every list the engine holds comes back from a save followed by a
\* load as the same ordered list, with the same name, percentage and colour
\* in every position; after a successful change that is what a load of the
\* guild's row returns.
C13_SaveLoadRoundTrip ==
    /\ \A g \in DOMAIN wheels : FromRows(save_wheel(wheels[g])) = {wheels[g]}
    /\ \A op \in Mutations :
          (last.op = op /\ last.result = "ok") =>
             load_wheel(last.g) = {wheels[last.g]}

\* A section whose colour was typed as hex digits has been saved.
C13_Witness ==
    /\ last.op = "editsection" /\ last.result = "ok"
    /\ last.color = TokenHex
    /\ wheels[GuildA] = <<Section(NameA, 100, Upper(TokenHex))>>
    /\ db[GuildA] = save_wheel(wheels[GuildA])

\* "#" followed by exactly six characters from 0-9 and A-F.
Canonical(c) ==
    /\ Len(c) = 7
    /\ c[1] = "#"
    /\ \A i \in 2..7 : \E k \in DOMAIN HexChars : HexChars[k] = c[i]

\* C14: the colour of every section, cached or stored, is "#" followed by
\* exactly six characters from 0-9 and A-F, whatever token it was made from.
C14_CanonicalColor ==
    /\ \A g \in DOMAIN wheels : \A i \in DOMAIN wheels[g] :
          Canonical(wheels[g][i].color)
    /\ \A g \in DOMAIN db : \A i \in DOMAIN db[g] :
          Canonical(db[g][i].color)

\* The same with the tokens left out that int(x, 16) accepts although they
\* are not six hex digits: the other kinds of token resolve canonically.
C14_SixDigitTokens ==
    \A t \in env.colors \ {TokenPrefixed, TokenSigned} :
       \A c \in ParseColor(t) : Canonical(c)

\* A step of listsections or of spin: an answer of either, a spin reaching
\* its defer, or a suspended spin running to its result.
ReadStep ==
    \/ Answers("listsections")
    \/ Answers("spin")
    \/ (spins \subseteq spins' /\ spins' # spins)
    \/ (spins' \subseteq spins /\ spins' # spins /\ last'.op = "spin")

\* C15: no step of listsections or spin changes any guild's list or writes
\* to durable storage; at most it loads the list into the cache.
C15_ReadsDoNotMutate ==
    [][ ReadStep =>
          /\ db' = db
          /\ faults' = faults
          /\ \A g \in env.guilds : CurrentSections(g)' = CurrentSections(g)
          /\ \A g \in DOMAIN wheels :
                g \in DOMAIN wheels' /\ wheels'[g] = wheels[g] ]_vars

\* A wheel of two sections was listed and is still cached and stored as
\* listed.
C15_Witness ==
    /\ last.op = "listsections" /\ last.result = "ok"
    /\ Len(last.sections) = 2
    /\ wheels[last.g] = last.sections
    /\ db[last.g] = save_wheel(last.sections)

\* A spin of a wheel of two sections announced its winner and the wheel is
\* still cached and stored as it was drawn from.
C15_WitnessSpin ==
    /\ last.op = "spin" /\ last.result = "Winner"
    /\ Len(last.sections) = 2
    /\ wheels[last.g] = last.sections
    /\ db[last.g] = save_wheel(last.sections)

C16_WitnessEdit ==
    /\ spins # {}
    /\ last.op = "editsection" /\ last.result = "ok"
    /\ last.total = 100

\* C17: every spin ends with EmptyWheel, with IncompleteWheel, or with a
\* winner that is a section of the list as it was at the draw, and that list
\* totalled 100; it never ends in another failure, also when other commands
\* of the guild ran while the spin was suspended.
C17_SpinSurvivesInterleaving ==
    last.op = "spin" =>
       /\ last.result \in {"EmptyWheel", "IncompleteWheel", "Winner"}
       /\ last.result = "Winner" =>
             /\ SumPercentages(last.sections) = 100
             /\ \E i \in DOMAIN last.sections :
                   <<last.sections[i].name>> = last.winner

\* The part that holds with overlapping commands too: a spin that announces
\* a winner names a section of the list it drew from.
C17_WinnerIsASection ==
    (last.op = "spin" /\ last.result = "Winner") =>
       \E i \in DOMAIN last.sections :
          <<last.sections[i].name>> = last.winner

\* Positions of the list a draw of r selects or passes, and whether the
\* handler took its fallback: `if not winner` after the loop.
Reached(sections, r) ==
    {i \in DOMAIN sections : SumPercentages(SubSeq(sections, 1, i)) >= r}

FallbackTaken(sections, r) == ~Truthy(SelectWinner(sections, r, 0))

\* C18: a spin takes the fallback to the first section only when no section
\* has a cumulative percentage that reaches r; when one does, the first such
\* section is the winner announced, whatever its name.
C18_FallbackOnlyWhenNothingSelected ==
    (last.op = "spin" /\ last.result = "Winner") =>
       /\ Reached(last.sections, last.r) # {} =>
             last.winner =
                <<last.sections[FirstReaching(last.sections, last.r)].name>>
       /\ FallbackTaken(last.sections, last.r) =>
             Reached(last.sections, last.r) = {}

\* The same statement for lists in which every section has a non-empty name.
C18_NamedSections ==
    (/\ last.op = "spin"
     /\ last.result = "Winner"
     /\ \A i \in DOMAIN last.sections : last.sections[i].name # <<>>) =>
       /\ Reached(last.sections, last.r) # {} =>
             last.winner =
                <<last.sections[FirstReaching(last.sections, last.r)].name>>
       /\ FallbackTaken(last.sections, last.r) =>
             Reached(last.sections, last.r) = {}

\* C19: a change whose durable write fails does not answer with success and
\* leaves every list as it was before the command, so that the cached list
\* of its guild still equals the stored one.
C19_FailedWriteChangesNothing ==
    [][ faults' = faults + 1 =>
          /\ last'.result # "ok"
          /\ \A g \in env.guilds : CurrentSections(g)' = CurrentSections(g)
          /\ \A g \in env.guilds :
                g = last'.g => wheels'[g] = StoredSections(g)' ]_vars

\* The part that holds: a failed write is answered with a storage failure
\* and leaves the stored rows as they were.
C19_FailedWriteIsReported ==
    [][ faults' = faults + 1 =>
          /\ last'.result = "StorageFailure"
          /\ last'.op \in Mutations
          /\ db' = db ]_vars

\* C20: when several refusals apply at once, addsection answers
\* InvalidPercentage before DuplicateName before PercentageBudgetExceeded,
\* and editsection answers SectionNotFound before InvalidPercentage before
\* PercentageBudgetExceeded.
C20_ValidationOrder ==
    [][ LET g == last'.g
            p == last'.pct
            old == CurrentSections(g)
            invalid == p <= 0 \/ p > 100
            hits == {i \in DOMAIN old :
                        Lower(old[i].name) = Lower(last'.name)}
        IN  /\ Answers("addsection") =>
                  /\ invalid => last'.result = "InvalidPercentage"
                  /\ (~invalid /\ hits # {}) => last'.result = "DuplicateName"
                  /\ (~invalid /\ hits = {} /\ SumPercentages(old) + p > 100)
                        => last'.result = "PercentageBudgetExceeded"
            /\ Answers("editsection") =>
                  /\ hits = {} => last'.result = "SectionNotFound"
                  /\ (hits # {} /\ invalid) =>
                        last'.result = "InvalidPercentage"
                  /\ (hits # {} /\ ~invalid /\
                      \E i \in hits :
                         SumPercentages(old) - old[i].percentage + p > 100)
                        => last'.result = "PercentageBudgetExceeded" ]_vars

\* An add of a name the full wheel already holds, with percentage 150, was
\* answered InvalidPercentage.
C20_Witness ==
    /\ last.op = "addsection"
    /\ last.pct = 150
    /\ last.result = "InvalidPercentage"
    /\ SumPercentages(CurrentSections(last.g)) = 100
    /\ \E i \in DOMAIN CurrentSections(last.g) :
          Lower(CurrentSections(last.g)[i].name) = Lower(last.name)

\* An edit of a name the full wheel does not hold, with percentage 150, was
\* answered SectionNotFound.
C20_WitnessEdit ==
    /\ last.op = "editsection"
    /\ last.pct = 150
    /\ last.result = "SectionNotFound"
    /\ SumPercentages(CurrentSections(last.g)) = 100

\* C21: an accepted editsection leaves the number of sections as it was,
\* gives the one section whose name matches case-insensitively the new
\* percentage and the resolved colour while that section keeps its stored
\* name and its position, and leaves every other section as it was.
C21_EditFrame ==
    [][ (Answers("editsection") /\ last'.result = "ok") =>
          LET g == last'.g
              old == CurrentSections(g)
              new == wheels'[g]
              hits == {i \in DOMAIN old :
                          Lower(old[i].name) = Lower(last'.name)}
          IN  /\ Len(new) = Len(old)
              /\ Cardinality(hits) = 1
              /\ \A i \in hits :
                    /\ new[i].name = old[i].name
                    /\ new[i].percentage = last'.pct
                    /\ new[i].color \in ParseColor(last'.color)
              /\ \A j \in DOMAIN old \ hits : new[j] = old[j]
              /\ g \in DOMAIN db' /\ db'[g] = save_wheel(new) ]_vars

\* The first of two sections, stored as "A", was edited under the name "a":
\* it is still first and still named "A", has the new colour, and the second
\* section is still there.
C21_Witness ==
    /\ last.op = "editsection" /\ last.result = "ok"
    /\ last.name = NameLowerA
    /\ last.color = TokenHex
    /\ Len(wheels[last.g]) = 2
    /\ wheels[last.g][1].name = NameA
    /\ wheels[last.g][1].color = Upper(TokenHex)
    /\ wheels[last.g][2].name = NameB

\* C22: a restart keeps every stored row; a row changes only when a change
\* to that guild's list is answered with success, and then holds that list;
\* the first access to a guild after a restart, when it writes nothing,
\* yields exactly the stored list (empty without a row); a guild once cached,
\* by a load or by createwheel, stays cached until the next restart, and its
\* list is then taken from the cache, not read from storage again.
C22_RestartAndLazyLoad ==
    [][ /\ RestartStep => db' = db
        /\ ~RestartStep =>
              /\ DOMAIN wheels \subseteq DOMAIN wheels'
              /\ \A g \in env.guilds :
                    /\ (g \notin DOMAIN wheels /\ g \in DOMAIN wheels'
                        /\ db' = db /\ faults' = faults) =>
                          wheels'[g] = StoredSections(g)
                    /\ StoredSections(g)' # StoredSections(g) =>
                          /\ last'.op \in Mutations
                          /\ last'.result = "ok"
                          /\ last'.g = g
                          /\ StoredSections(g)' = wheels'[g]
              /\ \A g \in DOMAIN wheels :
                    (Answers("listsections") /\ last'.g = g) =>
                       IF wheels[g] = <<>>
                       THEN last'.result = "EmptyWheel"
                       ELSE last'.result = "ok" /\ last'.sections = wheels[g]
              /\ \A g \in env.guilds :
                    (Answers("createwheel") /\ last'.g = g) =>
                       g \in DOMAIN wheels' /\ wheels'[g] = <<>> ]_vars

\* Both guilds had a section named "a" stored in this run, the process was
\* restarted, and a listing of the first guild, its first access since,
\* showed that section; the second guild has not been accessed yet.
C22_Witness ==
    /\ last.op = "listsections" /\ last.g = GuildA /\ last.result = "ok"
    /\ last.sections[1].name = NameLowerA
    /\ StoredSections(GuildA) = last.sections
    /\ GuildB \notin DOMAIN wheels
    /\ StoredSections(GuildB) # <<>>
    /\ StoredSections(GuildB)[1].name = NameLowerA

\* A guild is cached with a list that differs from its row, after a failed
\* write, and a listing has shown the cached list.
C22_WitnessServedFromCache ==
    /\ last.op = "listsections" /\ last.result = "ok"
    /\ last.sections = wheels[last.g]
    /\ last.sections # StoredSections(last.g)

\* Positions of the slices of an image that are drawn red, 4 wide.
Highlighted(image) ==
    {i \in DOMAIN image :
        image[i].outline_color = "red" /\ image[i].outline_width = 4}

\* C23: the image sent with a spin result has one slice per section; a slice
\* is red and 4 wide exactly when its section's name equals the announced
\* winner character for character, every other slice is black and 2 wide,
\* and exactly one slice is highlighted.
C23_HighlightExactlyWinner ==
    (last.op = "spin" /\ last.result = "Winner") =>
       /\ DOMAIN last.image = DOMAIN last.sections
       /\ \A i \in DOMAIN last.image :
             IF <<last.sections[i].name>> = last.winner
             THEN /\ last.image[i].outline_color = "red"
                  /\ last.image[i].outline_width = 4
             ELSE /\ last.image[i].outline_color = "black"
                  /\ last.image[i].outline_width = 2
       /\ Cardinality(Highlighted(last.image)) = 1

\* The same statement for spins whose announced winner has a non-empty name.
C23_NamedWinner ==
    (last.op = "spin" /\ last.result = "Winner" /\ last.winner # <<NameEmpty>>) =>
       /\ DOMAIN last.image = DOMAIN last.sections
       /\ \A i \in DOMAIN last.image :
             IF <<last.sections[i].name>> = last.winner
             THEN /\ last.image[i].outline_color = "red"
                  /\ last.image[i].outline_width = 4
             ELSE /\ last.image[i].outline_color = "black"
                  /\ last.image[i].outline_width = 2
       /\ Cardinality(Highlighted(last.image)) = 1

\* The preview sent with a listing, rendered without a winner, has every
\* slice black and 2 wide.
C23_PreviewHasNoHighlight ==
    (last.op = "listsections" /\ last.result = "ok") =>
       /\ DOMAIN last.image = DOMAIN last.sections
       /\ Highlighted(last.image) = {}
       /\ \A i \in DOMAIN last.image :
             /\ last.image[i].outline_color = "black"
             /\ last.image[i].outline_width = 2
             /\ last.image[i].fill_color = last.sections[i].color

=========================================================================
